---- MODULE Spec2Model ----
(***************************************************************************)
(* RoArmController (src/Robot_GH/roarm_controller.py): a thin HTTP client  *)
(* for the RoArm-M2-S arm.  Every command is a GET request to              *)
(*     <base_url>/js?json=<percent-encoded JSON object>                    *)
(* The model keeps the controller's three fields, the public operation in  *)
(* progress, the send_command calls it has made, and the state of the one  *)
(* blocking HTTP request (urlopen with its socket timeout).                *)
(*                                                                         *)
(* Text is a sequence of tokens: one token per character for everything    *)
(* json.dumps and urllib.parse.quote produce, one token for a literal of   *)
(* the source ("http://", "/js", "?json=").                                *)
(***************************************************************************)
EXTENDS Integers, Sequences, FiniteSets, TLC

(***************************************************************************)
(* Python values that reach the controller as arguments.                   *)
(*   Num(n)  an int            Flt(n)  the float n/10                      *)
(*   NaN     float('nan')      Obj     an object that is neither a number  *)
(*   None                              nor JSON-serialisable               *)
(***************************************************************************)
Num(n) == [t |-> "int", v |-> n]
Flt(n) == [t |-> "float", v |-> n]
NaN == [t |-> "nan"]
Obj == [t |-> "obj"]
None == [t |-> "none"]
PyStr(s) == [t |-> "str", s |-> s]
PyList(l) == [t |-> "list", l |-> l]

\* int(x): an int is kept, a float is truncated toward zero, NaN raises
\* ValueError, None and other objects raise TypeError.
PyInt(x) ==
    CASE x.t = "int" -> [ok |-> TRUE, v |-> x.v]
      [] x.t = "float" ->
           [ok |-> TRUE,
            v |-> IF x.v < 0 THEN 0 - ((0 - x.v) \div 10) ELSE x.v \div 10]
      [] x.t = "nan" -> [ok |-> FALSE, exc |-> "ValueError"]
      [] OTHER -> [ok |-> FALSE, exc |-> "TypeError"]

(***************************************************************************)
(* Characters.  Eacute stands for the one non-ASCII character of the       *)
(* model, U+00E9.                                                          *)
(***************************************************************************)
Eacute == "U+00E9"
Quote == "\""
Backslash == "\\"

DigitChars == <<"0", "1", "2", "3", "4", "5", "6", "7", "8", "9">>
HexUpper == <<"0", "1", "2", "3", "4", "5", "6", "7", "8", "9",
              "A", "B", "C", "D", "E", "F">>

\* Code points of the characters that are not letters or digits.
CodePoints ==
    <<  <<" ", 32>>, <<Quote, 34>>, <<"%", 37>>, <<",", 44>>, <<"-", 45>>,
        <<".", 46>>, <<"/", 47>>, <<":", 58>>, <<Backslash, 92>>,
        <<"_", 95>>, <<"{", 123>>, <<"}", 125>>, <<"~", 126>>,
        <<Eacute, 233>> >>

Specials == {CodePoints[i][1] : i \in 1..Len(CodePoints)}

\* The letters and digits that occur in the model's texts.
Alnum ==
    {"0", "1", "2", "3", "4", "5", "6", "7", "8", "9",
     "A", "B", "C", "D", "E", "F", "N", "T",
     "a", "c", "d", "e", "i", "l", "m", "n", "p", "s", "u", "x"}

Alphabet == Alnum \cup Specials

Ord(c) == (CHOOSE i \in 1..Len(CodePoints) : CodePoints[i][1] = c)

\* str(n) for an int n.
RECURSIVE NatToChars(_)
NatToChars(n) ==
    IF n < 10 THEN <<DigitChars[n + 1]>>
    ELSE NatToChars(n \div 10) \o <<DigitChars[(n % 10) + 1]>>

IntToChars(n) == IF n < 0 THEN <<"-">> \o NatToChars(0 - n) ELSE NatToChars(n)

\* repr(x) for a finite float x = n/10.
FloatToChars(n) ==
    LET a == IF n < 0 THEN 0 - n ELSE n
    IN  (IF n < 0 THEN <<"-">> ELSE <<>>)
        \o NatToChars(a \div 10) \o <<".", DigitChars[(a % 10) + 1]>>

(***************************************************************************)
(* json.dumps(command_dict, separators=(',', ':')).  A dictionary is the   *)
(* sequence of its <<key, value>> items in insertion order; keys are       *)
(* strings.  ensure_ascii is left at its default, so the output is ASCII.  *)
(***************************************************************************)
EscapeChar(c) ==
    CASE c = Quote -> <<Backslash, Quote>>
      [] c = Backslash -> <<Backslash, Backslash>>
      [] c = Eacute -> <<Backslash, "u", "0", "0", "e", "9">>
      [] OTHER -> <<c>>

EscapeTable == [c \in Alphabet |-> EscapeChar(c)]

RECURSIVE EscapeFrom(_, _)
EscapeFrom(s, i) ==
    IF i > Len(s) THEN <<>> ELSE EscapeTable[s[i]] \o EscapeFrom(s, i + 1)

EscapeString(s) == EscapeFrom(s, 1)

Serialisable(x) == x.t \in {"int", "float", "nan", "none"}

DumpsValue(x) ==
    CASE x.t = "int" -> IntToChars(x.v)
      [] x.t = "float" -> FloatToChars(x.v)
      [] x.t = "nan" -> <<"N", "a", "N">>
      [] x.t = "none" -> <<"n", "u", "l", "l">>

DumpsItem(it) == <<Quote>> \o EscapeString(it[1]) \o <<Quote, ":">> \o DumpsValue(it[2])

RECURSIVE DumpsItems(_)
DumpsItems(d) ==
    IF d = <<>> THEN <<>>
    ELSE IF Len(d) = 1 THEN DumpsItem(d[1])
    ELSE DumpsItem(d[1]) \o <<",">> \o DumpsItems(Tail(d))

\* [ok |-> TRUE, s |-> text], or [ok |-> FALSE] when json.dumps raises TypeError.
JsonDumps(d) ==
    IF \A i \in 1..Len(d) : Serialisable(d[i][2])
    THEN [ok |-> TRUE, s |-> <<"{">> \o DumpsItems(d) \o <<"}">>]
    ELSE [ok |-> FALSE]

(***************************************************************************)
(* urllib.parse.quote(json_str): letters, digits, "_.-~" and the default   *)
(* safe character "/" are kept, every other character becomes %XX.         *)
(***************************************************************************)
AlwaysSafe == {"_", ".", "-", "~"}

IsKept(c) == c \notin Specials \/ c \in AlwaysSafe \/ c = "/"

\* Variant of QuoteChar that leaves "%" as it is.
QuoteCharKeepsPercent(c) ==
    IF IsKept(c) \/ c = "%" THEN <<c>>
    ELSE <<"%", HexUpper[(CodePoints[Ord(c)][2] \div 16) + 1],
                HexUpper[(CodePoints[Ord(c)][2] % 16) + 1]>>

QuoteChar(c) ==
    IF IsKept(c) THEN <<c>>
    ELSE <<"%", HexUpper[(CodePoints[Ord(c)][2] \div 16) + 1],
                HexUpper[(CodePoints[Ord(c)][2] % 16) + 1]>>

QuoteTable == [c \in Alphabet |-> QuoteChar(c)]

RECURSIVE QuoteFrom(_, _)
QuoteFrom(s, i) ==
    IF i > Len(s) THEN <<>> ELSE QuoteTable[s[i]] \o QuoteFrom(s, i + 1)

UrlQuote(s) == QuoteFrom(s, 1)

(***************************************************************************)
(* The inverse conversions, by which the round trip of a request URL is   *)
(* stated: urllib.parse.unquote, and json.loads on the grammar json.dumps  *)
(* produces for a dictionary of numbers.  A result is [ok |-> TRUE, ...]   *)
(* or [ok |-> FALSE].                                                      *)
(***************************************************************************)
HexLower == <<"0", "1", "2", "3", "4", "5", "6", "7", "8", "9",
              "a", "b", "c", "d", "e", "f">>

IsHexDigit(c) == \E i \in 1..16 : HexUpper[i] = c \/ HexLower[i] = c

HexVal(c) == (CHOOSE i \in 1..16 : HexUpper[i] = c \/ HexLower[i] = c) - 1

IsDigit(c) == \E i \in 1..10 : DigitChars[i] = c

DigitVal(c) == (CHOOSE i \in 1..10 : DigitChars[i] = c) - 1

\* chr(n) for the code points of the model; "?" stands for any other character.
Chr(n) ==
    IF \E i \in 1..Len(CodePoints) : CodePoints[i][2] = n
    THEN CodePoints[CHOOSE i \in 1..Len(CodePoints) : CodePoints[i][2] = n][1]
    ELSE "?"

RECURSIVE UrlUnquote(_)
UrlUnquote(s) ==
    IF s = <<>> THEN <<>>
    ELSE IF s[1] = "%" /\ Len(s) >= 3 /\ IsHexDigit(s[2]) /\ IsHexDigit(s[3])
         THEN <<Chr(16 * HexVal(s[2]) + HexVal(s[3]))>> \o UrlUnquote(SubSeq(s, 4, Len(s)))
         ELSE <<s[1]>> \o UrlUnquote(Tail(s))

ParseFail == [ok |-> FALSE]

\* A JSON string whose opening quote precedes position i.
RECURSIVE ParseString(_, _, _)
ParseString(s, i, acc) ==
    IF i > Len(s) THEN ParseFail
    ELSE IF s[i] = Quote THEN [ok |-> TRUE, v |-> acc, i |-> i + 1]
    ELSE IF s[i] = Backslash
         THEN IF i + 1 > Len(s) THEN ParseFail
              ELSE IF s[i + 1] \in {Quote, Backslash, "/"}
                   THEN ParseString(s, i + 2, Append(acc, s[i + 1]))
              ELSE IF /\ s[i + 1] = "u"
                      /\ i + 5 <= Len(s)
                      /\ \A k \in 2..5 : IsHexDigit(s[i + k])
                   THEN ParseString(s, i + 6,
                            Append(acc, Chr(4096 * HexVal(s[i + 2]) + 256 * HexVal(s[i + 3])
                                            + 16 * HexVal(s[i + 4]) + HexVal(s[i + 5]))))
              ELSE ParseFail
    ELSE ParseString(s, i + 1, Append(acc, s[i]))

\* The run of digits from position i on: [n |-> value, i |-> next position].
RECURSIVE ParseDigits(_, _, _)
ParseDigits(s, i, n) ==
    IF i <= Len(s) /\ IsDigit(s[i])
    THEN ParseDigits(s, i + 1, 10 * n + DigitVal(s[i]))
    ELSE [n |-> n, i |-> i]

ParseNumber(s, i) ==
    LET neg == i <= Len(s) /\ s[i] = "-"
        j == IF neg THEN i + 1 ELSE i
        whole == ParseDigits(s, j, 0)
        sign(n) == IF neg THEN 0 - n ELSE n
    IN  IF whole.i = j THEN ParseFail
        ELSE IF whole.i <= Len(s) /\ s[whole.i] = "."
             THEN IF whole.i + 1 <= Len(s) /\ IsDigit(s[whole.i + 1])
                     /\ ~(whole.i + 2 <= Len(s) /\ IsDigit(s[whole.i + 2]))
                  THEN [ok |-> TRUE,
                        v |-> Flt(sign(10 * whole.n + DigitVal(s[whole.i + 1]))),
                        i |-> whole.i + 2]
                  ELSE ParseFail
             ELSE [ok |-> TRUE, v |-> Num(sign(whole.n)), i |-> whole.i]

ParseValue(s, i) ==
    IF i + 3 <= Len(s) /\ SubSeq(s, i, i + 3) = <<"n", "u", "l", "l">>
    THEN [ok |-> TRUE, v |-> None, i |-> i + 4]
    ELSE IF i + 2 <= Len(s) /\ SubSeq(s, i, i + 2) = <<"N", "a", "N">>
    THEN [ok |-> TRUE, v |-> NaN, i |-> i + 3]
    ELSE ParseNumber(s, i)

\* The items of an object from position i on, up to the closing brace that
\* must end the text.
RECURSIVE ParseItems(_, _, _)
ParseItems(s, i, acc) ==
    IF i > Len(s) \/ s[i] # Quote THEN ParseFail
    ELSE LET k == ParseString(s, i + 1, <<>>)
         IN  IF ~k.ok \/ k.i > Len(s) \/ s[k.i] # ":" THEN ParseFail
             ELSE LET x == ParseValue(s, k.i + 1)
                  IN  IF ~x.ok \/ x.i > Len(s) THEN ParseFail
                      ELSE IF s[x.i] = "," THEN ParseItems(s, x.i + 1, Append(acc, <<k.v, x.v>>))
                      ELSE IF s[x.i] = "}" /\ x.i = Len(s)
                           THEN [ok |-> TRUE, d |-> Append(acc, <<k.v, x.v>>)]
                      ELSE ParseFail

JsonLoads(s) ==
    IF Len(s) < 2 \/ s[1] # "{" THEN ParseFail
    ELSE IF s = <<"{", "}">> THEN [ok |-> TRUE, d |-> <<>>]
    ELSE ParseItems(s, 2, <<>>)

\* A dictionary as the function from its keys to their values (the last item
\* of a key wins): two dictionaries are equal when these functions are.
Keys(d) == {d[i][1] : i \in 1..Len(d)}

HasKey(d, k) == k \in Keys(d)

Get(d, k) == d[CHOOSE i \in 1..Len(d) : d[i][1] = k /\ \A j \in (i + 1)..Len(d) : d[j][1] # k][2]

AsMap(d) == [k \in Keys(d) |-> Get(d, k)]

(***************************************************************************)
(* Bounds of the model and constants of the program.                       *)
(***************************************************************************)
\* The clock (milliseconds since the controller was built) takes 0..MaxClock.
MaxClock == 1
\* A public operation starts only while fewer than MaxSends send_command
\* calls have been made in all.
MaxSends == 3
\* urlopen(req, timeout=5): seconds a blocking socket operation may wait.
Timeout == 5
\* speed=10, the default of every operation that takes a speed.
DefaultSpeed == 10
\* port=80, the default of __init__.
DefaultPort == 80
\* open_gripper and close_gripper pass these values to control_gripper.
GripperOpen == 100
GripperClosed == 0

(***************************************************************************)
(* Arguments the caller passes.                                            *)
(***************************************************************************)
Omitted == [t |-> "omitted"]

WithDefault(x, d) == IF x = Omitted THEN d ELSE x

IpArgs == {<<"192.168.4.1">>}
PortArgs == {DefaultPort}
SpeedArgs == {Omitted, Num(101), Obj}
AxisArgs == {Flt(49), Num(5), None}
AngleArgs == {Num(45), Flt(-27), NaN}
\* set_joint_angles: four angles and a speed.
JointArgs ==
    { [joints |-> <<Num(45), Flt(-27), Num(0), Flt(905)>>, speed |-> Omitted],
      [joints |-> <<Num(45), Flt(-27), Num(0), Flt(905)>>, speed |-> Obj],
      [joints |-> <<Num(45), NaN, Num(0), Num(90)>>, speed |-> Omitted],
      [joints |-> <<Num(0), Num(0), Num(0), Obj>>, speed |-> Num(101)] }
GripperArgs == {Num(30), Flt(-27), NaN}
\* move_to_position: x, y, z.
PointArgs == {<<Num(0), Num(0), Num(0)>>, <<Flt(1505), Flt(-27), NaN>>}
PathArgs == {PyList(<<>>), PyList(<<Num(1), Num(2), Num(3)>>)}
Bodies == {"ok"}

KT == <<"T">>
Km == <<"m">>
Kaxis == <<"a", "x", "i", "s">>
Kcmd == <<"c", "m", "d">>
Kspd == <<"s", "p", "d">>

\* Dictionaries passed to send_command directly: empty, the plain ones, one
\* whose keys need every kind of escaping, one json.dumps cannot serialise.
CommandArgs ==
    { <<>>,
      << <<KT, Num(1700)>> >>,
      << <<KT, Num(1700)>>, <<Km, Num(1)>>, <<Kaxis, Num(0)>>,
         <<Kcmd, Num(-45)>>, <<Kspd, Num(10)>> >>,
      << <<<<"a", Quote, Backslash, "%", "2", "5", " ", Eacute, "/", "u">>, Num(-45)>>,
         <<<<"%", "7", "D", ",", ":", "{", "}">>, Num(0)>> >>,
      << <<KT, Num(1)>>, <<Kcmd, Obj>> >> }

(***************************************************************************)
(* State.                                                                  *)
(***************************************************************************)
VARIABLES
    base_url,        \* self.base_url
    api_endpoint,    \* self.api_endpoint
    base_timestamp,  \* self.base_timestamp
    now,             \* the clock, as int(time.time() * 1000) reads it
    op,              \* the public operation called ("" when none is)
    args,            \* its arguments, as the caller gave them
    pc,              \* "idle": no operation in progress; "wait": blocked in
                     \* urlopen / response.read; "run": set_joint_angles
                     \* between two joints; "done": the operation has
                     \* returned or raised and the caller holds the outcome
    calls,           \* the send_command calls of that operation, in order
    ret,             \* what the operation returned
    raised,          \* the exception that reached its caller ("" for none)
    idle,            \* seconds the blocking socket operation has waited
    nSend,           \* send_command calls made since construction
    nReq             \* urlopen calls made since construction

vars == <<base_url, api_endpoint, base_timestamp, now, op, args, pc, calls,
          ret, raised, idle, nSend, nReq>>

fields == <<base_url, api_endpoint, base_timestamp>>

\* __init__(ip_address, port)
Init ==
    /\ \E ip \in IpArgs, port \in PortArgs :
          /\ base_url = <<"http://">> \o ip \o <<":">> \o IntToChars(port)
          /\ api_endpoint = <<"http://">> \o ip \o <<":">> \o IntToChars(port) \o <<"/js">>
    /\ now = 0
    /\ base_timestamp = Num(0)
    /\ op = ""
    /\ args = <<>>
    /\ pc = "idle"
    /\ calls = <<>>
    /\ ret = None
    /\ raised = ""
    /\ idle = 0
    /\ nSend = 0
    /\ nReq = 0

(***************************************************************************)
(* send_command, up to the point where it blocks in urlopen.  A call is    *)
(*   cmd   the dictionary it was given                                     *)
(*   req   whether urlopen was called, and url with what                   *)
(*   fail  "pending" while it blocks, then "none" or what failed           *)
(*   res   what it returned                                                *)
(***************************************************************************)
\* Variant of Request that goes on to urlopen when json.dumps has failed.
RequestAnyway(cmd) ==
    LET j == JsonDumps(cmd)
    IN  [cmd |-> cmd, req |-> TRUE,
         url |-> api_endpoint \o <<"?json=">> \o (IF j.ok THEN UrlQuote(j.s) ELSE <<>>),
         fail |-> "pending", res |-> None]

Request(cmd) ==
    LET j == JsonDumps(cmd)
    IN  IF j.ok
        THEN [cmd |-> cmd, req |-> TRUE,
              url |-> api_endpoint \o <<"?json=">> \o UrlQuote(j.s),
              fail |-> "pending", res |-> None]
        ELSE [cmd |-> cmd, req |-> FALSE, url |-> <<>>, fail |-> "encode", res |-> None]

\* Variant of Outcome with decode('utf-8') outside the try block.
OutcomeDecodeEscapes(kind, body) ==
    CASE kind = "none" -> [res |-> PyStr(body), exc |-> ""]
      [] kind = "decode" -> [res |-> None, exc |-> "UnicodeDecodeError"]
      [] OTHER -> [res |-> None, exc |-> ""]

\* What send_command hands back once the request ended: the decoded body, or
\* None from the except clause.
Outcome(kind, body) ==
    IF kind = "none" THEN [res |-> PyStr(body), exc |-> ""]
    ELSE [res |-> None, exc |-> ""]

\* Variant of RawCommand without the test "if m is not None".
RawCommandAlwaysM(T, m, axis, cmd, spd, t) ==
    << <<KT, IF T = None THEN Num(t) ELSE T>>, <<Km, m>> >>
    \o (IF axis # None THEN << <<Kaxis, axis>> >> ELSE <<>>)
    \o (IF cmd # None THEN << <<Kcmd, cmd>> >> ELSE <<>>)
    \o (IF spd # None THEN << <<Kspd, spd>> >> ELSE <<>>)

\* send_raw_command's dictionary; t is the clock reading used when T is None.
RawCommand(T, m, axis, cmd, spd, t) ==
    << <<KT, IF T = None THEN Num(t) ELSE T>> >>
    \o (IF m # None THEN << <<Km, m>> >> ELSE <<>>)
    \o (IF axis # None THEN << <<Kaxis, axis>> >> ELSE <<>>)
    \o (IF cmd # None THEN << <<Kcmd, cmd>> >> ELSE <<>>)
    \o (IF spd # None THEN << <<Kspd, spd>> >> ELSE <<>>)

\* set_joint_angle(axis, angle, speed): the int() conversions, left to right,
\* then the arguments of send_raw_command.
JointCommand(axis, angle, speed, t) ==
    LET a == PyInt(axis)
        g == PyInt(angle)
    IN  IF ~a.ok THEN [ok |-> FALSE, exc |-> a.exc]
        ELSE IF ~g.ok THEN [ok |-> FALSE, exc |-> g.exc]
        ELSE [ok |-> TRUE,
              cmd |-> RawCommand(None, Num(1), Num(a.v), Num(g.v), speed, t)]

\* Variant of GripperCommand that addresses axis 3.
GripperCommandWrist(value, speed, t) ==
    LET g == PyInt(value)
    IN  IF ~g.ok THEN [ok |-> FALSE, exc |-> g.exc]
        ELSE [ok |-> TRUE, cmd |-> RawCommand(None, Num(1), Num(3), Num(g.v), speed, t)]

\* control_gripper(value, speed)
GripperCommand(value, speed, t) ==
    LET g == PyInt(value)
    IN  IF ~g.ok THEN [ok |-> FALSE, exc |-> g.exc]
        ELSE [ok |-> TRUE, cmd |-> RawCommand(None, Num(1), Num(4), Num(g.v), speed, t)]

(***************************************************************************)
(* Public operations.  Each starts when no operation is in progress, and   *)
(* runs up to the point where send_command blocks (or to its return).      *)
(***************************************************************************)
CanCall == pc = "idle" /\ nSend < MaxSends

\* An operation that is one send_command(cmd): the call is made; when the
\* command cannot be encoded send_command has already returned None.
Invoke(name, a, cmd) ==
    LET c == Request(cmd)
    IN  /\ op' = name
        /\ args' = a
        /\ calls' = <<c>>
        /\ nSend' = nSend + 1
        /\ nReq' = nReq + (IF c.req THEN 1 ELSE 0)
        /\ pc' = IF c.req THEN "wait" ELSE "done"
        /\ idle' = 0
        /\ ret' = None
        /\ raised' = ""

\* An operation that raises before it calls send_command.
Raise(name, a, exc) ==
    /\ op' = name
    /\ args' = a
    /\ calls' = <<>>
    /\ pc' = "done"
    /\ ret' = None
    /\ raised' = exc
    /\ UNCHANGED <<idle, nSend, nReq>>

\* An operation that returns r without calling send_command.
Return(name, a, r) ==
    /\ op' = name
    /\ args' = a
    /\ calls' = <<>>
    /\ pc' = "done"
    /\ ret' = r
    /\ raised' = ""
    /\ UNCHANGED <<idle, nSend, nReq>>

send_command ==
    /\ CanCall
    /\ \E d \in CommandArgs : Invoke("send_command", [command_dict |-> d], d)
    /\ UNCHANGED <<fields, now>>

send_raw_command ==
    /\ CanCall
    /\ \E T \in {None, Num(7)}, m \in {None, Num(1)}, axis \in {None, Num(5)},
          cmd \in {None, Num(-45)}, spd \in {None, Num(101), Obj},
          t \in now..MaxClock :
          /\ now' = t
          /\ Invoke("send_raw_command",
                    [T |-> T, m |-> m, axis |-> axis, cmd |-> cmd, spd |-> spd],
                    RawCommand(T, m, axis, cmd, spd, t))
    /\ UNCHANGED fields

\* Variant of get_status that stores its timestamp in base_timestamp.
get_status_Restamps ==
    /\ CanCall
    /\ \E t \in now..MaxClock :
          /\ now' = t
          /\ base_timestamp' = Num(t)
          /\ Invoke("get_status", <<>>, << <<KT, Num(t)>> >>)
    /\ UNCHANGED <<base_url, api_endpoint>>

get_status ==
    /\ CanCall
    /\ \E t \in now..MaxClock :
          /\ now' = t
          /\ Invoke("get_status", <<>>, << <<KT, Num(t)>> >>)
    /\ UNCHANGED fields

set_joint_angle ==
    /\ CanCall
    /\ \E axis \in AxisArgs, angle \in AngleArgs, speed \in SpeedArgs, t \in now..MaxClock :
          LET a == [axis |-> axis, angle |-> angle, speed |-> speed]
              c == JointCommand(axis, angle, WithDefault(speed, Num(DefaultSpeed)), t)
          IN  IF c.ok
              THEN now' = t /\ Invoke("set_joint_angle", a, c.cmd)
              ELSE now' = now /\ Raise("set_joint_angle", a, c.exc)
    /\ UNCHANGED fields

control_gripper ==
    /\ CanCall
    /\ \E value \in GripperArgs, speed \in SpeedArgs, t \in now..MaxClock :
          LET a == [value |-> value, speed |-> speed]
              c == GripperCommand(value, WithDefault(speed, Num(DefaultSpeed)), t)
          IN  IF c.ok
              THEN now' = t /\ Invoke("control_gripper", a, c.cmd)
              ELSE now' = now /\ Raise("control_gripper", a, c.exc)
    /\ UNCHANGED fields

open_gripper ==
    /\ CanCall
    /\ \E speed \in SpeedArgs, t \in now..MaxClock :
          /\ now' = t
          /\ Invoke("open_gripper", [speed |-> speed],
                    GripperCommand(Num(GripperOpen),
                                   WithDefault(speed, Num(DefaultSpeed)), t).cmd)
    /\ UNCHANGED fields

close_gripper ==
    /\ CanCall
    /\ \E speed \in SpeedArgs, t \in now..MaxClock :
          /\ now' = t
          /\ Invoke("close_gripper", [speed |-> speed],
                    GripperCommand(Num(GripperClosed),
                                   WithDefault(speed, Num(DefaultSpeed)), t).cmd)
    /\ UNCHANGED fields

\* Variant of move_to_position that sends a status query.
move_to_position_Sends ==
    /\ pc = "idle"
    /\ \E p \in PointArgs, speed \in SpeedArgs :
          Invoke("move_to_position",
                 [x |-> p[1], y |-> p[2], z |-> p[3], speed |-> speed],
                 << <<KT, Num(now)>> >>)
    /\ UNCHANGED <<fields, now>>

move_to_position ==
    /\ pc = "idle"
    /\ \E p \in PointArgs, speed \in SpeedArgs :
          Return("move_to_position",
                 [x |-> p[1], y |-> p[2], z |-> p[3], speed |-> speed], None)
    /\ UNCHANGED <<fields, now>>

follow_path ==
    /\ pc = "idle"
    /\ \E points \in PathArgs, speed \in SpeedArgs :
          Return("follow_path", [points |-> points, speed |-> speed], PyList(<<>>))
    /\ UNCHANGED <<fields, now>>

(***************************************************************************)
(* set_joint_angles: results = [], then one set_joint_angle per joint.     *)
(***************************************************************************)
set_joint_angles ==
    /\ CanCall
    /\ \E a \in JointArgs :
          /\ op' = "set_joint_angles"
          /\ args' = a
          /\ calls' = <<>>
          /\ pc' = "run"
          /\ ret' = None
          /\ raised' = ""
    /\ UNCHANGED <<fields, now, idle, nSend, nReq>>

\* The results list: what the calls made so far returned.
Results == [k \in 1..Len(calls) |-> calls[k].res]

\* Variant of MoreJoints that stops at the first None.
MoreJointsUntilFailure(results) ==
    Len(results) < 4 /\ \A k \in 1..Len(results) : results[k] # None

\* Whether a set_joint_angle line is still to run.
MoreJoints(results) == Len(results) < 4

\* results.append(self.set_joint_angle(k - 1, joint_k, speed)), up to the
\* point where its send_command blocks.
NextJoint ==
    /\ pc = "run"
    /\ MoreJoints(Results)
    /\ \E t \in now..MaxClock :
          LET k == Len(calls) + 1
              c == JointCommand(Num(k - 1), args.joints[k],
                                WithDefault(args.speed, Num(DefaultSpeed)), t)
          IN  IF c.ok
              THEN LET r == Request(c.cmd)
                   IN  /\ now' = t
                       /\ calls' = Append(calls, r)
                       /\ nSend' = nSend + 1
                       /\ nReq' = nReq + (IF r.req THEN 1 ELSE 0)
                       /\ pc' = IF r.req THEN "wait" ELSE "run"
                       /\ idle' = 0
                       /\ UNCHANGED <<ret, raised>>
              ELSE /\ pc' = "done"
                   /\ raised' = c.exc
                   /\ UNCHANGED <<now, calls, nSend, nReq, idle, ret>>
    /\ UNCHANGED <<fields, op, args>>

\* return results
ReturnResults ==
    /\ pc = "run"
    /\ ~MoreJoints(Results)
    /\ pc' = "done"
    /\ ret' = PyList(Results)
    /\ UNCHANGED <<fields, now, op, args, calls, raised, idle, nSend, nReq>>

(***************************************************************************)
(* The blocking request: urlopen(req, timeout=5) and response.read().      *)
(* The timeout is the socket's: it bounds each wait for the server, and    *)
(* every piece of data that arrives starts the wait anew.                  *)
(***************************************************************************)
\* send_command ends with the given failure ("none": with the body read).
Complete(kind, body) ==
    LET out == Outcome(kind, body)
        n == Len(calls)
    IN  /\ pc = "wait"
        /\ calls' = [calls EXCEPT ![n] = [@ EXCEPT !.fail = kind, !.res = out.res]]
        /\ IF out.exc # ""
           THEN pc' = "done" /\ raised' = out.exc /\ ret' = ret
           ELSE IF op = "set_joint_angles"
           THEN pc' = "run" /\ UNCHANGED <<ret, raised>>
           ELSE pc' = "done" /\ ret' = out.res /\ raised' = raised
        /\ UNCHANGED <<fields, now, op, args, idle, nSend, nReq>>

\* The server answers and closes; the body is valid UTF-8.
ServerResponds == \E body \in Bodies : Complete("none", body)

\* The server answers with bytes that are not UTF-8: decode('utf-8') raises.
ServerRespondsGarbage == Complete("decode", "")

\* Connection refused or reset, or an HTTP error status: urlopen or read raises.
NetworkError == Complete("network", "")

\* Part of the response arrives: the socket operation that waited returns and
\* the next one starts waiting.
ServerData ==
    /\ pc = "wait"
    /\ idle' = 0
    /\ UNCHANGED <<fields, now, op, args, pc, calls, ret, raised, nSend, nReq>>

\* A second passes without data.
Tick ==
    /\ pc = "wait"
    /\ idle < Timeout
    /\ idle' = idle + 1
    /\ UNCHANGED <<fields, now, op, args, pc, calls, ret, raised, nSend, nReq>>

\* The socket operation has waited the whole timeout: socket.timeout is raised.
TimeoutFires ==
    /\ idle = Timeout
    /\ Complete("timeout", "")

\* The caller takes the outcome and goes on (a = results, in the example
\* usage); the next operation starts from the controller alone.
CallerResumes ==
    /\ pc = "done"
    /\ pc' = "idle"
    /\ op' = ""
    /\ args' = <<>>
    /\ calls' = <<>>
    /\ ret' = None
    /\ raised' = ""
    /\ idle' = 0
    /\ UNCHANGED <<fields, now, nSend, nReq>>

Next ==
    \/ CallerResumes
    \/ send_command
    \/ send_raw_command
    \/ get_status
    \/ set_joint_angle
    \/ set_joint_angles
    \/ NextJoint
    \/ ReturnResults
    \/ control_gripper
    \/ open_gripper
    \/ close_gripper
    \/ move_to_position
    \/ follow_path
    \/ ServerResponds
    \/ ServerRespondsGarbage
    \/ NetworkError
    \/ ServerData
    \/ Tick
    \/ TimeoutFires

Spec == Init /\ [][Next]_vars

\* The code runs on: a second that can pass does, a timeout that is due
\* fires, and set_joint_angles goes on to its next line.
LiveSpec ==
    /\ Spec
    /\ WF_vars(Tick)
    /\ WF_vars(TimeoutFires)
    /\ WF_vars(NextJoint)
    /\ WF_vars(ReturnResults)
    /\ WF_vars(CallerResumes)

(***************************************************************************)
(* Properties.                                                             *)
(***************************************************************************)
Last == calls[Len(calls)]

Failures == {"encode", "network", "timeout", "decode"}

SingleOps ==
    {"send_command", "send_raw_command", "get_status", "set_joint_angle",
     "control_gripper", "open_gripper", "close_gripper"}

GripperOps == {"control_gripper", "open_gripper", "close_gripper"}

StubOps == {"move_to_position", "follow_path"}

\* Call k ends in failure in the step at hand.
FailsNow(k) ==
    /\ k \in 1..Len(calls')
    /\ calls'[k].fail \in Failures
    /\ k > Len(calls) \/ calls[k].fail = "pending"

\* C1: whenever a send_command call made for a public operation fails, in
\* encoding the command, on the network, by timeout or in decoding the
\* response, no exception reaches the caller and the call yields None: a
\* single-command operation returns None, and set_joint_angles goes on with
\* None in the joint's place in its list.
C1_FailuresYieldNone ==
    [][ /\ \A k \in 1..4 :
              FailsNow(k) =>
                 /\ raised' = ""
                 /\ calls'[k].res = None
                 /\ op' \in SingleOps => pc' = "done" /\ ret' = None
                 /\ op' = "set_joint_angles" => pc' = "run"
        /\ pc' = "done" /\ op' = "set_joint_angles" /\ raised' = "" =>
              \A k \in 1..Len(calls') :
                 calls'[k].fail \in Failures => ret'.l[k] = None ]_vars

\* A set_joint_angles that met a network error, a timeout and an undecodable
\* response and still returned its list.
C1_Witness ==
    /\ op = "set_joint_angles" /\ pc = "done" /\ raised = ""
    /\ Len(calls) = 4
    /\ calls[1].fail = "network" /\ calls[2].fail = "timeout"
    /\ calls[3].fail = "decode" /\ calls[4].fail = "none"
    /\ ret = PyList(<<None, None, None, PyStr("ok")>>)

RawFields == <<KT, Km, Kaxis, Kcmd, Kspd>>

RawArg(i) == <<args.T, args.m, args.axis, args.cmd, args.spd>>[i]

\* Field i of send_raw_command is absent when omitted, present with the
\* supplied value otherwise.
AsSupplied(d, i) ==
    IF RawArg(i) = None THEN ~HasKey(d, RawFields[i])
    ELSE HasKey(d, RawFields[i]) /\ Get(d, RawFields[i]) = RawArg(i)

\* C2 as stated: in every payload send_raw_command sends, each of the five
\* fields T, m, axis, cmd, spd is absent when its argument is omitted and
\* present with the supplied value otherwise.
C2_OmittedFieldsAbsent ==
    op = "send_raw_command" /\ calls # <<>> /\ calls[1].req =>
       \A i \in 1..5 : AsSupplied(calls[1].cmd, i)

\* C2, amended: that holds of m, axis, cmd and spd; T is always present, with
\* the supplied value or, when omitted, with the clock reading of the call.
C2_RawCommandFields ==
    op = "send_raw_command" =>
       /\ Len(calls) = 1
       /\ Keys(calls[1].cmd) \subseteq {RawFields[i] : i \in 1..5}
       /\ Len(calls[1].cmd) = Cardinality(Keys(calls[1].cmd))
       /\ \A i \in 2..5 : AsSupplied(calls[1].cmd, i)
       /\ HasKey(calls[1].cmd, KT)
       /\ Get(calls[1].cmd, KT) = IF args.T = None THEN Num(now) ELSE args.T

\* send_raw_command(spd=101), answered: the payload is {T: clock, spd: 101}.
C2_Witness ==
    /\ op = "send_raw_command" /\ pc = "done"
    /\ args.T = None /\ args.m = None /\ args.axis = None /\ args.cmd = None
    /\ args.spd = Num(101)
    /\ now = 1
    /\ calls[1].req /\ calls[1].fail = "none"
    /\ calls[1].cmd = << <<KT, Num(1)>>, <<Kspd, Num(101)>> >>

\* C3 as stated: the number of requests issued equals the number of
\* send_command calls.
C3_RequestsEqualCalls == nReq = nSend

\* C3, amended: a step adds at most one send_command call and at most one
\* urlopen call; urlopen is called only within a send_command call, once when
\* the command can be encoded and not at all when it cannot; and the step in
\* which a request fails calls urlopen no more (no retry).
C3_AtMostOneRequest ==
    [][ /\ nSend' \in {nSend, nSend + 1}
        /\ nReq' \in {nReq, nReq + 1}
        /\ nReq' = nReq + 1 => nSend' = nSend + 1
        /\ nSend' = nSend + 1 =>
              /\ Len(calls') >= 1
              /\ calls'[Len(calls')].req = JsonDumps(calls'[Len(calls')].cmd).ok
              /\ calls'[Len(calls')].req = (nReq' = nReq + 1)
        /\ \A k \in 1..4 : FailsNow(k) /\ k <= Len(calls) => nReq' = nReq /\ nSend' = nSend
        /\ pc' = "wait" => nReq' >= 1 /\ Last'.req /\ Last'.fail = "pending" ]_vars

\* One command could not be encoded, the next request timed out: two calls,
\* one request.
C3_Witness ==
    /\ nSend = 2 /\ nReq = 1
    /\ pc = "done" /\ calls # <<>> /\ Last.fail = "timeout"

IsIntIn(x, lo, hi) == x.t = "int" /\ x.v >= lo /\ x.v <= hi

\* C4: in every payload sent, axis when present is an integer in 0..4 and spd
\* when present is an integer in 0..100.
C4_AxisAndSpeedInRange ==
    \A k \in 1..Len(calls) :
       calls[k].req =>
          /\ HasKey(calls[k].cmd, Kaxis) => IsIntIn(Get(calls[k].cmd, Kaxis), 0, 4)
          /\ HasKey(calls[k].cmd, Kspd) => IsIntIn(Get(calls[k].cmd, Kspd), 0, 100)

IntegerValued(d) == \A i \in 1..Len(d) : d[i][2].t = "int"

\* The query value of a request URL: what follows <api_endpoint>?json=
QueryValue(u) == SubSeq(u, Len(api_endpoint) + 2, Len(u))

\* C5: the URL of every request in flight for a dictionary of integers is
\* <base_url>/js, then ?json=, then a value that percent-decodes and parses
\* back to a dictionary equal to the command.
C5_UrlRoundTrip ==
    pc = "wait" /\ IntegerValued(Last.cmd) =>
       /\ api_endpoint = base_url \o <<"/js">>
       /\ SubSeq(Last.url, 1, Len(api_endpoint) + 1) = api_endpoint \o <<"?json=">>
       /\ LET d == JsonLoads(UrlUnquote(QueryValue(Last.url)))
          IN  /\ d.ok
              /\ Len(d.d) = Len(Last.cmd)
              /\ AsMap(d.d) = AsMap(Last.cmd)

\* A request in flight whose keys hold quotes, backslashes, percent signs,
\* a space and a non-ASCII character.
C5_Witness ==
    /\ pc = "wait" /\ op = "send_command"
    /\ Len(Last.cmd) = 2
    /\ Eacute \in {Last.cmd[1][1][i] : i \in 1..Len(Last.cmd[1][1])}
    /\ "%" \in {Last.cmd[2][1][i] : i \in 1..Len(Last.cmd[2][1])}

\* C6: a call of move_to_position or follow_path ends at once, makes no
\* send_command call and no request, and returns None (move_to_position) or
\* the empty list (follow_path).
C6_StubsSendNothing ==
    [][ op' \in StubOps /\ pc = "idle" =>
           /\ pc' = "done"
           /\ nSend' = nSend
           /\ nReq' = nReq
           /\ calls' = <<>>
           /\ raised' = ""
           /\ ret' = IF op' = "move_to_position" THEN None ELSE PyList(<<>>) ]_vars

\* follow_path on a path of three points returned [] and nothing was ever sent.
C6_Witness ==
    /\ op = "follow_path" /\ pc = "done"
    /\ args.points = PyList(<<Num(1), Num(2), Num(3)>>)
    /\ ret = PyList(<<>>)
    /\ nSend = 0 /\ nReq = 0

\* C7: every send_command call that blocks in its request eventually returns.
C7_EveryCallReturns == (pc = "wait") ~> (pc # "wait")

\* What the timeout does ensure, on the status query alone: unless data keeps
\* arriving for ever, each piece within the timeout of the one before, the
\* blocked call returns.  (Holds under StatusLiveSpec.)
StatusNext ==
    \/ get_status
    \/ CallerResumes
    \/ ServerResponds
    \/ ServerRespondsGarbage
    \/ NetworkError
    \/ ServerData
    \/ Tick
    \/ TimeoutFires

StatusLiveSpec ==
    /\ Init
    /\ [][StatusNext]_vars
    /\ WF_vars(Tick)
    /\ WF_vars(TimeoutFires)
    /\ WF_vars(CallerResumes)

SilentServerTimesOut ==
    <>[][idle' >= idle \/ pc' # "wait"]_vars => C7_EveryCallReturns

\* C8: no step changes base_url, api_endpoint or base_timestamp.
C8_FieldsNeverChange ==
    [][ /\ base_url' = base_url
        /\ api_endpoint' = api_endpoint
        /\ base_timestamp' = base_timestamp ]_vars

\* Three operations on, one of them failed, the clock has moved: the fields
\* are those of construction.
C8_Witness ==
    /\ nSend = 3 /\ nReq = 2 /\ now = 1
    /\ pc = "done" /\ op = "get_status" /\ Last.fail = "none"
    /\ base_timestamp = Num(0)

Convertible(x) == x.t \in {"int", "float"}

\* n is x truncated toward zero.
TruncatesTo(x, n) ==
    CASE x.t = "int" -> n = x.v
      [] x.t = "float" ->
           IF x.v >= 0 THEN 10 * n <= x.v /\ x.v < 10 * n + 10
           ELSE 10 * n >= x.v /\ x.v > 10 * n - 10
      [] OTHER -> FALSE

Speed == WithDefault(args.speed, Num(DefaultSpeed))

\* C9 as stated: a set_joint_angles that has ended has issued four requests,
\* for axis 0, 1, 2, 3 in that order, and returned the list of their four
\* results.
C9_FourRequestsAlways ==
    op = "set_joint_angles" /\ pc = "done" =>
       /\ raised = ""
       /\ Len(calls) = 4
       /\ \A k \in 1..4 : calls[k].req /\ Get(calls[k].cmd, Kaxis) = Num(k - 1)
       /\ ret = PyList(Results)

\* C9, amended: set_joint_angles makes its send_command calls in the order
\* axis 0, 1, 2, 3, each after the previous one has returned, each issuing
\* one request when speed is JSON-serialisable.  When the four angles convert
\* to integers it makes exactly four and returns the list of their four
\* results in that order, whatever failed.  When one does not, int() raises
\* at the first such angle, after the calls for the joints before it, and
\* no list is returned.
C9_JointsInOrder ==
    op = "set_joint_angles" =>
       /\ Len(calls) <= 4
       /\ \A k \in 1..Len(calls) :
             /\ Convertible(args.joints[k])
             /\ Keys(calls[k].cmd) = {KT, Km, Kaxis, Kcmd, Kspd}
             /\ Get(calls[k].cmd, Kaxis) = Num(k - 1)
             /\ Get(calls[k].cmd, Kcmd).t = "int"
             /\ TruncatesTo(args.joints[k], Get(calls[k].cmd, Kcmd).v)
             /\ Get(calls[k].cmd, Kspd) = Speed
             /\ calls[k].req = Serialisable(Speed)
             /\ k < Len(calls) => calls[k].fail # "pending"
       /\ pc = "wait" <=> (calls # <<>> /\ Last.fail = "pending")
       /\ pc # "done" => raised = "" /\ ret = None
       /\ pc = "done" /\ raised = "" =>
             /\ Len(calls) = 4
             /\ ret = PyList(<<calls[1].res, calls[2].res, calls[3].res, calls[4].res>>)
       /\ pc = "done" /\ raised # "" =>
             /\ Len(calls) < 4
             /\ ~Convertible(args.joints[Len(calls) + 1])
             /\ ret = None
       /\ (\A k \in 1..4 : Convertible(args.joints[k])) => raised = ""

\* The request for joint 1 failed; those for joints 2, 3, 4 were made all the
\* same, and the last was answered.
C9_Witness ==
    /\ op = "set_joint_angles" /\ pc = "done" /\ raised = ""
    /\ calls[1].req /\ calls[1].fail = "network"
    /\ calls[2].req /\ calls[3].req /\ calls[4].req
    /\ ret.l[1] = None /\ ret.l[4] = PyStr("ok")

GripperValue ==
    CASE op = "open_gripper" -> Num(GripperOpen)
      [] op = "close_gripper" -> Num(GripperClosed)
      [] op = "control_gripper" -> args.value

====
